---- MODULE Spec2Model ----
(***************************************************************************)
(* Model of the ms365-access backend: the API-key access gate and the key  *)
(* management surface (app/dependencies.py, app/routers/api_keys.py,       *)
(* app/cli.py), the gating of the proxy routers, the background batch job  *)
(* executor (app/tasks/background.py), the crypto module (app/crypto.py),  *)
(* the credential store (app/routers/auth.py) and the token vault          *)
(* (app/services/graph_client.py).                                         *)
(***************************************************************************)
EXTENDS Integers, Sequences, FiniteSets, TLC

VARIABLES
    apiKeys,    \* table api_keys: sequence of rows, row id = position (autoincrement)
    auth,       \* table auth: sequence of Credential rows
    now,        \* datetime.utcnow(), a logical clock
    last,       \* the request handled by the last step and its response
    inflight,   \* requests suspended at an await: creations before their commit,
                \* open callback transactions, clients holding an Auth object
    jobs,       \* table background_jobs: job id -> row
    exec        \* state of the run_batch_operation task of each job id

vars == <<apiKeys, auth, now, last, inflight, jobs, exec>>

----------------------------------------------------------------------------
(* Bounds *)

MaxTime == 1        \* the clock runs over 0..MaxTime
MaxSecrets == 2     \* raw bearer secrets are 1..MaxSecrets
MaxItems == 3       \* longest item list handed to a batch job

----------------------------------------------------------------------------
(* Values *)

None == "None"                      \* Python None (string-valued fields)
NoneList == <<None>>                \* Python None (list-valued fields)
NoTime == 0 - 1                     \* Python None (datetime-valued fields)
NoBearer == 0                       \* request without an Authorization header
NoSecret == 0                       \* response without a raw_key
Secrets == 1..MaxSecrets            \* values of secrets.token_urlsafe(48)
Names == {"a", "b"}                 \* key names
Emails == {"u@x"}

Range(s) == {s[i] : i \in DOMAIN s}

\* Python truthiness of an Optional[str] and of a list.
TruthyStr(v) == v \notin {None, ""}
TruthyList(v) == v # <<>>

VALID_PERMISSIONS ==
    {"read:mail", "read:calendar", "read:contacts", "read:files",
     "write:draft", "write:mail", "write:calendar", "write:contacts",
     "write:files", "admin"}

TIER_PERMISSIONS ==
    [admin |-> <<"admin">>,
     openclaw |-> <<"read:mail", "write:draft", "read:calendar",
                    "write:calendar", "read:contacts", "write:contacts">>]

\* Python's str ordering of the permission tokens the model uses
\* ("bogus" is a token outside the vocabulary).
TokenOrder ==
    <<"admin", "bogus", "read:calendar", "read:contacts", "read:files",
      "read:mail", "write:calendar", "write:contacts", "write:draft",
      "write:files", "write:mail">>

Rank(t) == CHOOSE i \in DOMAIN TokenOrder : TokenOrder[i] = t

RECURSIVE Insert(_, _)
Insert(s, t) ==
    IF s = <<>> THEN <<t>>
    ELSE IF Rank(t) < Rank(Head(s)) THEN <<t>> \o s
    ELSE <<Head(s)>> \o Insert(Tail(s), t)

\* sorted(list): ascending, duplicates kept.
RECURSIVE sorted(_)
sorted(s) == IF s = <<>> THEN <<>> ELSE Insert(sorted(Tail(s)), Head(s))

\* json.dumps / json.loads: the column holds a JSON text, not the list.
json_dumps(v) == [json |-> v]
json_loads(t) == t.json
IsJsonText(v) == DOMAIN v = {"json"}

\* hashlib.sha256(raw.encode()).hexdigest(): digests are modelled as the
\* negative integers, injective and disjoint from the raw secrets.
sha256(raw) == 0 - raw

\* Columns of the ORM class ApiKey.
ApiKeyColumns ==
    {"id", "key_hash", "name", "permissions", "created_at", "last_used_at",
     "is_active"}

\* The declarative constructor ApiKey(**kwargs) raises TypeError for a
\* keyword that is not an attribute of the class.
ApiKeyCtorOk(kwargs) == kwargs \subseteq ApiKeyColumns

\* Reading api_key.<attr> raises AttributeError for an unmapped attribute.
HasAttr(attr) == attr \in ApiKeyColumns

\* Column defaults of a new row (created_at is not modelled).
NewRow(id, key_hash, name, permissions) ==
    [id |-> id, key_hash |-> key_hash, name |-> name,
     permissions |-> permissions, last_used_at |-> NoTime, is_active |-> TRUE]

\* Request inputs
OpenclawList == TIER_PERMISSIONS["openclaw"]
MixedList == <<"read:mail", "bogus">>   \* one valid token, one outside the vocabulary

\* ApiKeyCreate bodies, less the name: tier and permissions.
CreateInputs ==
    {[tier |-> None, permissions |-> <<>>],
     [tier |-> None, permissions |-> <<"admin">>],
     [tier |-> None, permissions |-> MixedList],
     [tier |-> "", permissions |-> <<"admin">>],
     [tier |-> "openclaw", permissions |-> <<>>],
     [tier |-> "openclaw", permissions |-> <<"admin">>],
     [tier |-> "nosuch", permissions |-> <<>>]}

\* ApiKeyUpdate bodies.
UpdateInputs ==
    {[name |-> "b", permissions |-> NoneList, is_active |-> None],
     [name |-> None, permissions |-> <<"admin">>, is_active |-> None],
     [name |-> None, permissions |-> OpenclawList, is_active |-> None],
     [name |-> None, permissions |-> MixedList, is_active |-> None],
     [name |-> None, permissions |-> NoneList, is_active |-> "False"],
     [name |-> None, permissions |-> NoneList, is_active |-> "True"],
     [name |-> "b", permissions |-> MixedList, is_active |-> "False"]}

\* create-key --name N --permissions P...
CliPermInputs == {<<"admin">>, OpenclawList}
Bearers == Secrets \cup {NoBearer}

----------------------------------------------------------------------------
(* Access gate: app/dependencies.py *)

ActiveMatch(keys, raw) ==
    {i \in DOMAIN keys : keys[i].key_hash = sha256(raw) /\ keys[i].is_active = TRUE}

\* verify_api_key without the is_active filter of the lookup.
verify_api_key_AnyMatch(keys, raw, t) ==
    LET m == {i \in DOMAIN keys : keys[i].key_hash = sha256(raw)} IN
    IF m = {}
    THEN [status |-> 401, www |-> "Bearer", key |-> 0, keys |-> keys]
    ELSE LET i == CHOOSE i \in m : TRUE IN
         [status |-> 200, www |-> None, key |-> i,
          keys |-> [keys EXCEPT ![i].last_used_at = t]]

\* verify_api_key:
\* [status, www (WWW-Authenticate), key (row id, 0 if none), keys (table after the commit)]
verify_api_key(keys, raw, t) ==
    LET m == ActiveMatch(keys, raw) IN
    IF m = {}
    THEN [status |-> 401, www |-> "Bearer", key |-> 0, keys |-> keys]
    ELSE LET i == CHOOSE i \in m : TRUE IN
         [status |-> 200, www |-> None, key |-> i,
          keys |-> [keys EXCEPT ![i].last_used_at = t]]

_parse_permissions(row) ==
    IF IsJsonText(row.permissions) THEN json_loads(row.permissions)
    ELSE row.permissions

\* _check without the implicit grant of 'admin'.
require_permission_NoAdmin(keys, raw, permission, t) ==
    LET v == verify_api_key(keys, raw, t) IN
    IF v.status = 401
    THEN [gate |-> "401", detail |-> "Invalid or inactive API key.",
          www |-> v.www, key |-> 0, keys |-> v.keys]
    ELSE LET perms == _parse_permissions(v.keys[v.key]) IN
         IF permission \in Range(perms)
         THEN [gate |-> "pass", detail |-> None, www |-> None, key |-> v.key,
               keys |-> v.keys]
         ELSE [gate |-> "403", detail |-> permission, www |-> None,
               key |-> v.key, keys |-> v.keys]

\* _check that lets every authenticated key through.
require_permission_AnyKey(keys, raw, permission, t) ==
    LET v == verify_api_key(keys, raw, t) IN
    IF v.status = 401
    THEN [gate |-> "401", detail |-> "Invalid or inactive API key.",
          www |-> v.www, key |-> 0, keys |-> v.keys]
    ELSE [gate |-> "pass", detail |-> None, www |-> None, key |-> v.key,
          keys |-> v.keys]

\* A gate that records the use of a key only when the permission check passes.
require_permission_TouchOnPass(keys, raw, permission, t) ==
    LET v == verify_api_key(keys, raw, t) IN
    IF v.status = 401
    THEN [gate |-> "401", detail |-> "Invalid or inactive API key.",
          www |-> v.www, key |-> 0, keys |-> v.keys]
    ELSE LET perms == _parse_permissions(v.keys[v.key]) IN
         IF "admin" \in Range(perms) \/ permission \in Range(perms)
         THEN [gate |-> "pass", detail |-> None, www |-> None, key |-> v.key,
               keys |-> v.keys]
         ELSE [gate |-> "403", detail |-> permission, www |-> None,
               key |-> v.key, keys |-> keys]

\* require_permission(permission)._check
\* [gate ("401" | "403" | "pass"), detail, www, key, keys]
require_permission(keys, raw, permission, t) ==
    LET v == verify_api_key(keys, raw, t) IN
    IF v.status = 401
    THEN [gate |-> "401", detail |-> "Invalid or inactive API key.",
          www |-> v.www, key |-> 0, keys |-> v.keys]
    ELSE LET perms == _parse_permissions(v.keys[v.key]) IN
         IF "admin" \in Range(perms) \/ permission \in Range(perms)
         THEN [gate |-> "pass", detail |-> None, www |-> None, key |-> v.key,
               keys |-> v.keys]
         ELSE [gate |-> "403", detail |-> permission, www |-> None,
               key |-> v.key, keys |-> v.keys]

\* bearer_scheme = HTTPBearer(): a request without the header is rejected
\* before verify_api_key runs.
Gate(keys, raw, permission, t) ==
    IF raw = NoBearer
    THEN [gate |-> "noheader", detail |-> "Not authenticated", www |-> None,
          key |-> 0, keys |-> keys]
    ELSE require_permission(keys, raw, permission, t)

\* HTTP status of a gate rejection (the status HTTPBearer answers a missing
\* header with depends on the framework version).
GateStatuses(gate) ==
    CASE gate = "401" -> {401}
      [] gate = "403" -> {403}
      [] gate = "noheader" -> {401, 403}

\* The record of a step: request and response.
Step(op, raw, permission, g, status, detail, target, raw_key, req) ==
    [op |-> op, bearer |-> raw, perm |-> permission,
     gate |-> g.gate, www |-> g.www, key |-> g.key, status |-> status,
     detail |-> detail,
     target |-> target, raw_key |-> raw_key, req |-> req, vault |-> FALSE]

Idle(op) ==
    [op |-> op, bearer |-> NoBearer, perm |-> None,
     gate |-> None, www |-> None, key |-> 0, status |-> 0, detail |-> None,
     target |-> 0,
     raw_key |-> NoSecret, req |-> <<>>, vault |-> FALSE]

NoGate == [gate |-> None, www |-> None, key |-> 0]

----------------------------------------------------------------------------
(* Key management surface: app/routers/api_keys.py *)

NameTaken(keys, name) == \E i \in DOMAIN keys : keys[i].name = name
HashTaken(keys, h) == \E i \in DOMAIN keys : keys[i].key_hash = h

\* secrets.token_urlsafe(48): a random value, represented by one that no
\* key of the table was made from.
token_urlsafe(keys) == CHOOSE r \in Secrets : ~HashTaken(keys, sha256(r))

\* create_api_key, lines 59-84: resolve the permissions from tier or list.
ResolvePermissions(tier, permissions) ==
    IF TruthyStr(tier) /\ TruthyList(permissions)
    THEN [status |-> 400, detail |-> "tier and permissions", resolved |-> <<>>]
    ELSE IF TruthyStr(tier)
    THEN IF tier \notin DOMAIN TIER_PERMISSIONS
         THEN [status |-> 400, detail |-> "unknown tier", resolved |-> <<>>]
         ELSE [status |-> 200, detail |-> None,
               resolved |-> TIER_PERMISSIONS[tier]]
    ELSE IF ~TruthyList(permissions)
    THEN [status |-> 400, detail |-> "neither", resolved |-> <<>>]
    ELSE IF Range(permissions) \ VALID_PERMISSIONS # {}
    THEN [status |-> 400, detail |-> "invalid permissions", resolved |-> <<>>]
    ELSE [status |-> 200, detail |-> None, resolved |-> permissions]

\* _to_response(api_key) reads api_key.tier.
_to_response(row) ==
    IF HasAttr("tier") THEN [status |-> 200, detail |-> None]
    ELSE [status |-> 500, detail |-> "AttributeError"]

\* create_api_key, lines 94-112: build the row, commit, answer.
InsertApiKey(keys, raw, name, resolved) ==
    IF ~ApiKeyCtorOk({"key_hash", "name", "tier", "permissions"})
    THEN [status |-> 500, detail |-> "TypeError", keys |-> keys,
          raw_key |-> NoSecret]
    ELSE IF NameTaken(keys, name) \/ HashTaken(keys, sha256(raw))
    THEN [status |-> 500, detail |-> "IntegrityError", keys |-> keys,
          raw_key |-> NoSecret]
    ELSE LET row == NewRow(Len(keys) + 1, sha256(raw), name,
                           json_dumps(sorted(resolved))) IN
         IF _to_response(row).status = 200
         THEN [status |-> 201, detail |-> None, keys |-> Append(keys, row),
               raw_key |-> raw]
         ELSE [status |-> 500, detail |-> _to_response(row).detail,
               keys |-> Append(keys, row), raw_key |-> NoSecret]

\* create_api_key, lines 48-112, after the gate.
create_api_key(keys, raw, name, tier, permissions) ==
    LET r == ResolvePermissions(tier, permissions) IN
    IF r.status # 200
    THEN [status |-> r.status, detail |-> r.detail, keys |-> keys,
          raw_key |-> NoSecret]
    ELSE IF NameTaken(keys, name)
    THEN [status |-> 409, detail |-> "name exists", keys |-> keys,
          raw_key |-> NoSecret]
    ELSE InsertApiKey(keys, raw, name, r.resolved)

\* list_api_keys, after the gate.
list_api_keys(keys) ==
    IF \E i \in DOMAIN keys : _to_response(keys[i]).status # 200
    THEN [status |-> 500, detail |-> "AttributeError"]
    ELSE [status |-> 200, detail |-> None]

\* update_api_key that persists the new name before it validates the
\* permissions.
update_api_key_CommitsName(keys, key_id, name, permissions, is_active) ==
    IF key_id \notin DOMAIN keys
    THEN [status |-> 404, detail |-> "API key not found.", keys |-> keys]
    ELSE
    LET r0 == keys[key_id]
        r1 == IF name # None THEN [r0 EXCEPT !.name = name] ELSE r0
    IN  IF permissions # NoneList /\ Range(permissions) \ VALID_PERMISSIONS # {}
        THEN [status |-> 400, detail |-> "invalid permissions",
              keys |-> [keys EXCEPT ![key_id] = r1]]
        ELSE
        LET r2 == IF permissions # NoneList
                  THEN [r1 EXCEPT !.permissions = json_dumps(sorted(permissions))]
                  ELSE r1
            r3 == IF is_active # None
                  THEN [r2 EXCEPT !.is_active = (is_active = "True")]
                  ELSE r2
        IN  IF \E i \in DOMAIN keys : i # key_id /\ keys[i].name = r3.name
            THEN [status |-> 500, detail |-> "IntegrityError", keys |-> keys]
            ELSE [status |-> _to_response(r3).status,
                  detail |-> _to_response(r3).detail,
                  keys |-> [keys EXCEPT ![key_id] = r3]]

\* update_api_key, after the gate.
update_api_key(keys, key_id, name, permissions, is_active) ==
    IF key_id \notin DOMAIN keys
    THEN [status |-> 404, detail |-> "API key not found.", keys |-> keys]
    ELSE
    LET r0 == keys[key_id]
        r1 == IF name # None THEN [r0 EXCEPT !.name = name] ELSE r0
    IN  IF permissions # NoneList /\ Range(permissions) \ VALID_PERMISSIONS # {}
        THEN [status |-> 400, detail |-> "invalid permissions", keys |-> keys]
        ELSE
        LET r2 == IF permissions # NoneList
                  THEN [r1 EXCEPT !.permissions = json_dumps(sorted(permissions))]
                  ELSE r1
            r3 == IF is_active # None
                  THEN [r2 EXCEPT !.is_active = (is_active = "True")]
                  ELSE r2
        IN  IF \E i \in DOMAIN keys : i # key_id /\ keys[i].name = r3.name
            THEN [status |-> 500, detail |-> "IntegrityError", keys |-> keys]
            ELSE [status |-> _to_response(r3).status,
                  detail |-> _to_response(r3).detail,
                  keys |-> [keys EXCEPT ![key_id] = r3]]

\* revoke_api_key that deletes the row.
revoke_api_key_Delete(keys, key_id) ==
    IF key_id \notin DOMAIN keys
    THEN [status |-> 404, detail |-> "API key not found.", keys |-> keys]
    ELSE [status |-> 200, detail |-> "revoked",
          keys |-> SubSeq(keys, 1, key_id - 1) \o SubSeq(keys, key_id + 1, Len(keys))]

\* revoke_api_key, after the gate.
revoke_api_key(keys, key_id) ==
    IF key_id \notin DOMAIN keys
    THEN [status |-> 404, detail |-> "API key not found.", keys |-> keys]
    ELSE [status |-> 200, detail |-> "revoked",
          keys |-> [keys EXCEPT ![key_id].is_active = FALSE]]

KeyIds == 1 .. (Len(apiKeys) + 1)     \* the ids in the table and an unknown one

HttpList ==
    \E raw \in Bearers :
      LET g == Gate(apiKeys, raw, "admin", now) IN
      /\ IF g.gate # "pass"
         THEN \E st \in GateStatuses(g.gate) :
                last' = Step("list", raw, "admin", g, st, g.detail, 0, NoSecret, <<>>)
         ELSE LET h == list_api_keys(g.keys) IN
              last' = Step("list", raw, "admin", g, h.status, h.detail, 0, NoSecret, <<>>)
      /\ apiKeys' = g.keys
      /\ UNCHANGED <<auth, now, inflight, jobs, exec>>

HttpCreate ==
    \E raw \in Bearers, name \in Names, body \in CreateInputs :
      LET g == Gate(apiKeys, raw, "admin", now)
          req == [name |-> name, tier |-> body.tier, permissions |-> body.permissions]
      IN
      /\ IF g.gate # "pass"
         THEN /\ \E st \in GateStatuses(g.gate) :
                   last' = Step("create", raw, "admin", g, st, g.detail, 0, NoSecret, req)
              /\ apiKeys' = g.keys
         ELSE LET h == create_api_key(g.keys, token_urlsafe(g.keys), name,
                                      body.tier, body.permissions) IN
                /\ last' = Step("create", raw, "admin", g, h.status, h.detail,
                                IF h.status = 201 THEN Len(h.keys) ELSE 0,
                                h.raw_key, req)
                /\ apiKeys' = h.keys
      /\ UNCHANGED <<auth, now, inflight, jobs, exec>>

HttpUpdateOf(inputs) ==
    \E raw \in Bearers, key_id \in KeyIds, req \in inputs :
      LET g == Gate(apiKeys, raw, "admin", now) IN
      /\ IF g.gate # "pass"
         THEN /\ \E st \in GateStatuses(g.gate) :
                   last' = Step("update", raw, "admin", g, st, g.detail, key_id, NoSecret, req)
              /\ apiKeys' = g.keys
         ELSE LET h == update_api_key(g.keys, key_id, req.name, req.permissions,
                                      req.is_active) IN
              /\ last' = Step("update", raw, "admin", g, h.status, h.detail, key_id, NoSecret, req)
              /\ apiKeys' = h.keys
      /\ UNCHANGED <<auth, now, inflight, jobs, exec>>

HttpUpdate == HttpUpdateOf(UpdateInputs)

HttpRevoke ==
    \E raw \in Bearers, key_id \in KeyIds :
      LET g == Gate(apiKeys, raw, "admin", now) IN
      /\ IF g.gate # "pass"
         THEN /\ \E st \in GateStatuses(g.gate) :
                   last' = Step("revoke", raw, "admin", g, st, g.detail, key_id, NoSecret, <<>>)
              /\ apiKeys' = g.keys
         ELSE LET h == revoke_api_key(g.keys, key_id) IN
              /\ last' = Step("revoke", raw, "admin", g, h.status, h.detail, key_id, NoSecret, <<>>)
              /\ apiKeys' = h.keys
      /\ UNCHANGED <<auth, now, inflight, jobs, exec>>

----------------------------------------------------------------------------
(* Key management CLI: app/cli.py *)

\* create_key that stores the raw key in the key_hash column.
CliInsertKey_StoresRaw(keys, raw, name, permissions) ==
    IF NameTaken(keys, name) \/ HashTaken(keys, raw)
    THEN [status |-> 1, detail |-> "IntegrityError", keys |-> keys,
          raw_key |-> NoSecret]
    ELSE [status |-> 0, detail |-> "created",
          keys |-> Append(keys, NewRow(Len(keys) + 1, raw, name,
                                       json_dumps(sorted(permissions)))),
          raw_key |-> raw]

\* create_key, lines 52-60: build the row and commit (name is UNIQUE).
CliInsertKey(keys, raw, name, permissions) ==
    IF ~ApiKeyCtorOk({"key_hash", "name", "permissions"})
    THEN [status |-> 1, detail |-> "TypeError", keys |-> keys, raw_key |-> NoSecret]
    ELSE IF NameTaken(keys, name) \/ HashTaken(keys, sha256(raw))
    THEN [status |-> 1, detail |-> "IntegrityError", keys |-> keys,
          raw_key |-> NoSecret]
    ELSE [status |-> 0, detail |-> "created",
          keys |-> Append(keys, NewRow(Len(keys) + 1, sha256(raw), name,
                                       json_dumps(sorted(permissions)))),
          raw_key |-> raw]

\* create_key / cmd_create_key
create_key(keys, raw, name, permissions) ==
    IF NameTaken(keys, name)
    THEN [status |-> 0, detail |-> "skip", keys |-> keys, raw_key |-> NoSecret]
    ELSE CliInsertKey(keys, raw, name, permissions)

\* cmd_revoke_key
cmd_revoke_key(keys, name) ==
    IF ~NameTaken(keys, name)
    THEN [status |-> 1, detail |-> "not found", keys |-> keys, target |-> 0]
    ELSE LET i == CHOOSE i \in DOMAIN keys : keys[i].name = name IN
         IF ~keys[i].is_active
         THEN [status |-> 0, detail |-> "already revoked", keys |-> keys,
               target |-> i]
         ELSE [status |-> 0, detail |-> "revoked",
               keys |-> [keys EXCEPT ![i].is_active = FALSE], target |-> i]

CliCreateKeyOf(inputs) ==
    \E name \in Names, permissions \in inputs :
      LET h == create_key(apiKeys, token_urlsafe(apiKeys), name, permissions) IN
      /\ last' = Step("cli_create", NoBearer, None, NoGate, h.status, h.detail,
                      IF h.detail = "created" THEN Len(h.keys) ELSE 0, h.raw_key,
                      [name |-> name, permissions |-> permissions])
      /\ apiKeys' = h.keys
      /\ UNCHANGED <<auth, now, inflight, jobs, exec>>

CliCreateKey == CliCreateKeyOf(CliPermInputs)

CliRevokeKey ==
    \E name \in Names :
      LET h == cmd_revoke_key(apiKeys, name) IN
      /\ last' = Step("cli_revoke", NoBearer, None, NoGate, h.status, h.detail,
                      h.target, NoSecret, [name |-> name])
      /\ apiKeys' = h.keys
      /\ UNCHANGED <<auth, now, inflight, jobs, exec>>

\* cmd_list_keys prints id, name, active, last used and permissions.
CliListKeys ==
    /\ last' = Step("cli_list", NoBearer, None, NoGate, 0, "listed", 0, NoSecret, <<>>)
    /\ UNCHANGED <<apiKeys, auth, now, inflight, jobs, exec>>

----------------------------------------------------------------------------
(* Proxy routers: the dependencies each endpoint declares *)

\* An endpoint class: its router and the permission of its
\* dependencies=[Depends(require_permission(...))], None when it has none.
Endpoints ==
    {[router |-> "mail", perm |-> "read:mail"],
     [router |-> "mail", perm |-> "write:draft"],
     [router |-> "mail", perm |-> "write:mail"],
     [router |-> "calendar", perm |-> "read:calendar"],
     [router |-> "calendar", perm |-> "write:calendar"],
     [router |-> "files", perm |-> "read:files"],
     [router |-> "files", perm |-> "write:files"],
     [router |-> "contacts", perm |-> "read:contacts"],
     [router |-> "contacts", perm |-> "write:contacts"],
     [router |-> "sharepoint", perm |-> None]}

\* get_current_auth / get_graph_client: a GraphClient is built from the
\* first Auth row; 401 when there is none.
get_graph_client(rows) ==
    IF rows = <<>>
    THEN [status |-> 401, detail |-> "Not authenticated.", vault |-> FALSE]
    ELSE [status |-> 200, detail |-> None, vault |-> TRUE]

\* A request to a proxy endpoint: the route's dependencies (the gate, when the
\* route declares one) run first, then the service's GraphClient is resolved.
ProxyRequest ==
    \E e \in Endpoints, raw \in Bearers :
      LET g == IF e.perm = None
               THEN [gate |-> None, detail |-> None, www |-> None, key |-> 0,
                     keys |-> apiKeys]
               ELSE Gate(apiKeys, raw, e.perm, now)
      IN
      /\ IF g.gate \notin {None, "pass"}
         THEN \E st \in GateStatuses(g.gate) :
                last' = Step(e.router, raw, e.perm, g, st, g.detail, 0, NoSecret, <<>>)
         ELSE LET c == get_graph_client(auth) IN
              last' = [Step(e.router, raw, e.perm, g, c.status, c.detail, 0,
                            NoSecret, <<>>) EXCEPT !.vault = c.vault]
      /\ apiKeys' = g.keys
      /\ UNCHANGED <<auth, now, inflight, jobs, exec>>

----------------------------------------------------------------------------
(* Credential store: app/routers/auth.py *)

\* callback: a successful exchange clears the table and inserts one row;
\* a failed exchange answers 400.
AuthCallback ==
    \E email \in Emails, ok \in BOOLEAN :
      /\ auth' = IF ok THEN <<[email |-> email]>> ELSE auth
      /\ last' = Step("callback", NoBearer, None, NoGate, IF ok THEN 200 ELSE 400,
                      None, 0, NoSecret, <<>>)
      /\ UNCHANGED <<apiKeys, now, inflight, jobs, exec>>

\* logout: delete every Auth row.
AuthLogout ==
    /\ auth' = <<>>
    /\ last' = Step("logout", NoBearer, None, NoGate, 200, None, 0, NoSecret, <<>>)
    /\ UNCHANGED <<apiKeys, now, inflight, jobs, exec>>

\* The clock advances.
Tick ==
    /\ now < MaxTime
    /\ now' = now + 1
    /\ last' = Idle("tick")
    /\ UNCHANGED <<apiKeys, auth, inflight, jobs, exec>>

----------------------------------------------------------------------------
(* Specification of the gate and the key management surface *)

Init ==
    /\ apiKeys = <<>>
    /\ auth = <<>>
    /\ now = 0
    /\ last = Idle("init")
    /\ inflight = {}
    /\ jobs = <<>>
    /\ exec = <<>>

Next ==
    \/ HttpList
    \/ HttpCreate
    \/ HttpUpdate
    \/ HttpRevoke
    \/ CliCreateKey
    \/ CliRevokeKey
    \/ CliListKeys

Spec == Init /\ [][Next]_vars

\* Specification of the proxy routers behind the gate.
NextProxy ==
    \/ ProxyRequest
    \/ AuthCallback
    \/ AuthLogout
    \/ CliCreateKey
    \/ CliRevokeKey
    \/ Tick

SpecProxy == Init /\ [][NextProxy]_vars

----------------------------------------------------------------------------
(* Key creation, one step per stretch between two awaits: the name check   *)
(* (db.execute) and the commit are separate steps, so that creations       *)
(* interleave.                                                             *)

\* Two requests run at once.
Rids == {"r1", "r2"}
FreeRids == {r \in Rids : \A e \in inflight : e.rid # r}

\* create_api_key up to the duplicate-name check (lines 48-92).
HttpCreateBegin ==
    \E raw \in Bearers, name \in Names, body \in CreateInputs, rid \in FreeRids :
      LET g == Gate(apiKeys, raw, "admin", now)
          req == [name |-> name, tier |-> body.tier, permissions |-> body.permissions]
          r == ResolvePermissions(body.tier, body.permissions)
      IN
      /\ apiKeys' = g.keys
      /\ IF g.gate # "pass"
         THEN /\ \E st \in GateStatuses(g.gate) :
                   last' = Step("create", raw, "admin", g, st, g.detail, 0, NoSecret, req)
              /\ inflight' = inflight
         ELSE IF r.status # 200
         THEN /\ last' = Step("create", raw, "admin", g, r.status, r.detail, 0, NoSecret, req)
              /\ inflight' = inflight
         ELSE IF NameTaken(g.keys, name)
         THEN /\ last' = Step("create", raw, "admin", g, 409, "name exists", 0, NoSecret, req)
              /\ inflight' = inflight
         ELSE /\ last' = Idle("create_begin")
              /\ inflight' = inflight \cup
                    {[rid |-> rid, kind |-> "http", bearer |-> raw,
                      g |-> [gate |-> g.gate, www |-> g.www, key |-> g.key],
                      req |-> req, resolved |-> r.resolved]}
      /\ UNCHANGED <<auth, now, jobs, exec>>

\* create_api_key from the key generation on (lines 94-112).
HttpCreateCommit ==
    \E e \in inflight :
      /\ e.kind = "http"
      /\ LET h == InsertApiKey(apiKeys, token_urlsafe(apiKeys), e.req.name, e.resolved) IN
         /\ last' = Step("create", e.bearer, "admin", e.g, h.status, h.detail,
                         IF h.status = 201 THEN Len(h.keys) ELSE 0, h.raw_key, e.req)
         /\ apiKeys' = h.keys
      /\ inflight' = inflight \ {e}
      /\ UNCHANGED <<auth, now, jobs, exec>>

\* create_key up to the existing-name check (lines 38-50).
CliCreateBegin ==
    \E name \in Names, permissions \in CliPermInputs, rid \in FreeRids :
      LET req == [name |-> name, permissions |-> permissions] IN
      /\ IF NameTaken(apiKeys, name)
         THEN /\ last' = Step("cli_create", NoBearer, None, NoGate, 0, "skip", 0, NoSecret, req)
              /\ inflight' = inflight
         ELSE /\ last' = Idle("cli_create_begin")
              /\ inflight' = inflight \cup
                    {[rid |-> rid, kind |-> "cli", bearer |-> NoBearer, g |-> NoGate,
                      req |-> req, resolved |-> permissions]}
      /\ UNCHANGED <<apiKeys, auth, now, jobs, exec>>

\* create_key from the construction of the row on (lines 52-62).
CliCreateCommit ==
    \E e \in inflight :
      /\ e.kind = "cli"
      /\ LET h == CliInsertKey(apiKeys, token_urlsafe(apiKeys), e.req.name, e.resolved) IN
         /\ last' = Step("cli_create", NoBearer, None, NoGate, h.status, h.detail,
                         IF h.detail = "created" THEN Len(h.keys) ELSE 0, h.raw_key,
                         e.req)
         /\ apiKeys' = h.keys
      /\ inflight' = inflight \ {e}
      /\ UNCHANGED <<auth, now, jobs, exec>>

NextCreate ==
    \/ HttpCreateBegin
    \/ HttpCreateCommit
    \/ CliCreateBegin
    \/ CliCreateCommit

SpecCreate == Init /\ [][NextCreate]_vars

----------------------------------------------------------------------------
(* Background jobs: app/tasks/background.py and the batch endpoints of     *)
(* app/routers/mail.py                                                     *)

JobIds == {"j1"}                        \* values of uuid.uuid4()
ItemIds == {"m1", "m2"}                 \* message ids
Errors == {"timeout", "not found"}      \* str(e) of an exception of the operation
Outcomes == {"ok"} \cup Errors          \* what one call of the operation does
StorageError == "storage unavailable"   \* str(e) of a failed job-state write

RECURSIVE SeqsUpTo(_, _)
SeqsUpTo(S, n) ==
    IF n = 0 THEN {<<>>}
    ELSE LET shorter == SeqsUpTo(S, n - 1) IN
         shorter \cup {Append(q, x) : q \in shorter, x \in S}

ItemLists == SeqsUpTo(ItemIds, MaxItems)

NoResult == [null |-> TRUE]             \* result column NULL

\* Python truthiness of a dict.
TruthyDict(d) == DOMAIN d # {}

\* create_job: the row of a new job.
create_job(job_type, total) ==
    [job_type |-> job_type, status |-> "pending", progress |-> 0,
     total |-> total, result |-> NoResult, error |-> None]

\* update_job_progress that leaves the status column alone.
update_job_progress_KeepStatus(job, progress, total, status) ==
    [job EXCEPT !.progress = progress, !.total = total]

\* update_job_progress: the row after the update.
update_job_progress(job, progress, total, status) ==
    [job EXCEPT !.progress = progress, !.total = total, !.status = status]

\* complete_job that stores a result only when a ledger has an entry.
complete_job_EmptyIsNull(job, total, result, error) ==
    [job EXCEPT !.status = IF ~TruthyStr(error) THEN "complete" ELSE "error",
                !.progress = total,
                !.total = total,
                !.result = IF result.success # <<>> \/ result.failed # <<>>
                           THEN json_dumps(result) ELSE NoResult,
                !.error = error]

\* complete_job: the row after the update.
complete_job(job, total, result, error) ==
    [job EXCEPT !.status = IF ~TruthyStr(error) THEN "complete" ELSE "error",
                !.progress = total,
                !.total = total,
                !.result = IF TruthyDict(result) THEN json_dumps(result) ELSE NoResult,
                !.error = error]

\* run_batch_operation, lines 84-88, with a failing operation ending the run.
AfterItem_Abort(e, item, out) ==
    IF out = "ok"
    THEN [e EXCEPT !.results.success = Append(@, item), !.pc = "persist",
                   !.calls = Append(@, item), !.outs = Append(@, out)]
    ELSE [e EXCEPT !.pc = "crashed", !.raised = out,
                   !.calls = Append(@, item), !.outs = Append(@, out)]

\* run_batch_operation, lines 84-88: one call of the operation and its ledger
\* entry (calls and outs record the calls made and what each did).
AfterItem(e, item, out) ==
    IF out = "ok"
    THEN [e EXCEPT !.results.success = Append(@, item), !.pc = "persist",
                   !.calls = Append(@, item), !.outs = Append(@, out)]
    ELSE [e EXCEPT !.results.failed = Append(@, [item |-> item, error |-> out]),
                   !.pc = "persist",
                   !.calls = Append(@, item), !.outs = Append(@, out)]

\* A mapping extended by giving every key the new value.
Extend_Overwrite(f, k, v) == [x \in DOMAIN f \cup {k} |-> v]

\* The mapping f with key k added.
Extend(f, k, v) == [x \in DOMAIN f \cup {k} |-> IF x = k THEN v ELSE f[x]]

\* batch_move_messages / batch_delete_messages: gate, GraphClient, create_job,
\* background_tasks.add_task, response {job_id}.  The operation handed to the
\* executor closes over the mail service of the request, and so over its
\* GraphClient and the Auth object that client loaded (client).
BatchRequestOf(ids, lists) ==
    \E raw \in Bearers, job_type \in {"batch_move", "batch_delete"} :
      LET g == Gate(apiKeys, raw, "write:mail", now) IN
      /\ apiKeys' = g.keys
      /\ IF g.gate # "pass"
         THEN /\ \E st \in GateStatuses(g.gate) :
                   last' = Step(job_type, raw, "write:mail", g, st, g.detail, 0, NoSecret, <<>>)
              /\ UNCHANGED <<jobs, exec>>
         ELSE LET c == get_graph_client(auth) IN
              IF c.status # 200
              THEN /\ last' = Step(job_type, raw, "write:mail", g, c.status, c.detail, 0, NoSecret, <<>>)
                   /\ UNCHANGED <<jobs, exec>>
              ELSE \E items \in lists :
                   /\ ids \ DOMAIN jobs # {}
                   /\ LET id == CHOOSE j \in ids : j \notin DOMAIN jobs IN
                      /\ jobs' = Extend(jobs, id, create_job(job_type, Len(items)))
                      /\ exec' = Extend(exec, id,
                                  [pc |-> "start", items |-> items, i |-> 0,
                                   results |-> [success |-> <<>>, failed |-> <<>>],
                                   calls |-> <<>>, outs |-> <<>>, raised |-> None,
                                   client |-> auth[1]])
                      /\ last' = [Step(job_type, raw, "write:mail", g, 200, id, 0,
                                       NoSecret, <<>>) EXCEPT !.vault = c.vault]
      /\ UNCHANGED <<auth, now, inflight>>

BatchRequest == BatchRequestOf(JobIds, ItemLists)

\* run_batch_operation, line 79: update_job_progress(db, job_id, 0, total, "running").
\* A write that raises ends the task: the function has no handler.
ExecStart ==
    \E j \in DOMAIN exec, ok \in BOOLEAN :
      /\ exec[j].pc = "start"
      /\ IF ok
         THEN /\ jobs' = [jobs EXCEPT ![j] =
                            update_job_progress(@, 0, Len(exec[j].items), "running")]
              /\ exec' = [exec EXCEPT ![j].pc = "loop"]
         ELSE /\ jobs' = jobs
              /\ exec' = [exec EXCEPT ![j].pc = "crashed", ![j].raised = StorageError]
      /\ last' = Idle("exec")
      /\ UNCHANGED <<apiKeys, auth, now, inflight>>

\* run_batch_operation, lines 83-88: the operation on the next item.
ExecItem ==
    \E j \in DOMAIN exec, out \in Outcomes :
      /\ exec[j].pc = "loop"
      /\ exec[j].i < Len(exec[j].items)
      /\ exec' = [exec EXCEPT ![j] = AfterItem(@, @.items[@.i + 1], out)]
      /\ last' = Idle("exec")
      /\ UNCHANGED <<apiKeys, auth, now, inflight, jobs>>

\* run_batch_operation, line 90: update_job_progress(db, job_id, i + 1, total).
ExecProgress ==
    \E j \in DOMAIN exec, ok \in BOOLEAN :
      /\ exec[j].pc = "persist"
      /\ IF ok
         THEN /\ jobs' = [jobs EXCEPT ![j] =
                            update_job_progress(@, exec[j].i + 1, Len(exec[j].items),
                                                "running")]
              /\ exec' = [exec EXCEPT ![j].pc = "loop", ![j].i = @ + 1]
         ELSE /\ jobs' = jobs
              /\ exec' = [exec EXCEPT ![j].pc = "crashed", ![j].raised = StorageError]
      /\ last' = Idle("exec")
      /\ UNCHANGED <<apiKeys, auth, now, inflight>>

\* run_batch_operation, lines 92-93: complete_job(db, job_id, total, result=results).
ExecComplete ==
    \E j \in DOMAIN exec, ok \in BOOLEAN :
      /\ exec[j].pc = "loop"
      /\ exec[j].i = Len(exec[j].items)
      /\ IF ok
         THEN /\ jobs' = [jobs EXCEPT ![j] =
                            complete_job(@, Len(exec[j].items), exec[j].results, None)]
              /\ exec' = [exec EXCEPT ![j].pc = "done"]
         ELSE /\ jobs' = jobs
              /\ exec' = [exec EXCEPT ![j].pc = "crashed", ![j].raised = StorageError]
      /\ last' = Idle("exec")
      /\ UNCHANGED <<apiKeys, auth, now, inflight>>

\* The state the batch endpoints are used in: create-key made an admin key
\* and an openclaw key, and the authorization callback stored a credential.
InitJobs ==
    /\ apiKeys = <<NewRow(1, sha256(1), "a", json_dumps(sorted(<<"admin">>))),
                   NewRow(2, sha256(2), "b", json_dumps(sorted(OpenclawList)))>>
    /\ auth = <<[email |-> "u@x"]>>
    /\ now = 0
    /\ last = Idle("init")
    /\ inflight = {}
    /\ jobs = <<>>
    /\ exec = <<>>

NextJobs ==
    \/ BatchRequest
    \/ ExecStart
    \/ ExecItem
    \/ ExecProgress
    \/ ExecComplete

SpecJobs == InitJobs /\ [][NextJobs]_vars

----------------------------------------------------------------------------
(* Properties of the gate and the key management surface *)

KeyOps == {"list", "create", "update", "revoke"}
ProxyOps == {e.router : e \in Endpoints}
GatedStep(l) == l.op \in KeyOps \cup ProxyOps /\ l.perm # None /\ l.bearer # NoBearer

\* The rows of table keys that the raw secret is the secret of.
RowsOf(keys, raw) == {i \in DOMAIN keys : keys[i].key_hash = sha256(raw)}

\* The set of permission tokens stored on a row.
Stored(row) == Range(json_loads(row.permissions))

\* Two tables agree on every row, the last_used_at of the rows of set ids excepted.
SameBut(keys1, keys2, ids) ==
    /\ Len(keys1) = Len(keys2)
    /\ \A i \in DOMAIN keys1 :
         IF i \in ids
         THEN keys2[i] = [keys1[i] EXCEPT !.last_used_at = keys2[i].last_used_at]
         ELSE keys2[i] = keys1[i]

\* C1: a request whose bearer secret belongs to no row, or only to a row with
\* is_active = FALSE, is answered 401 with WWW-Authenticate: Bearer and changes
\* no row, in every state the request can arrive in.
C1_InactiveKeyUnauthorized ==
    [][ (/\ GatedStep(last')
         /\ \A i \in RowsOf(apiKeys, last'.bearer) : ~apiKeys[i].is_active)
        => (/\ last'.gate = "401"
            /\ last'.status = 401
            /\ last'.www = "Bearer"
            /\ apiKeys' = apiKeys) ]_vars

\* C1 witness: a revoked key presents its correct secret and is answered 401.
C1_Witness ==
    /\ GatedStep(last)
    /\ last.status = 401
    /\ \E i \in RowsOf(apiKeys, last.bearer) : ~apiKeys[i].is_active

\* C2: for a request of an active key, the gate passes exactly when 'admin'
\* or the required permission is in the permission set stored on the key's
\* row; otherwise the answer is 403 naming the required permission.
C2_AuthorizeByStoredSet ==
    [][ \A i \in RowsOf(apiKeys, last'.bearer) :
          (GatedStep(last') /\ apiKeys[i].is_active)
          => IF "admin" \in Stored(apiKeys[i]) \/ last'.perm \in Stored(apiKeys[i])
             THEN last'.gate = "pass"
             ELSE /\ last'.gate = "403"
                  /\ last'.status = 403
                  /\ last'.detail = last'.perm ]_vars

\* C2 witness: a key holding the openclaw set is refused write:mail.
C2_Witness ==
    /\ GatedStep(last)
    /\ last.perm = "write:mail"
    /\ last.gate = "403"
    /\ last.key \in DOMAIN apiKeys
    /\ Stored(apiKeys[last.key]) = Range(TIER_PERMISSIONS["openclaw"])
    /\ "read:mail" \in Stored(apiKeys[last.key])

\* C3: a request obtains a GraphClient (and with it the token vault and the
\* upstream API) only after it passed the gate.
C3_VaultBehindGate == last.vault => last.gate = "pass"

\* The caller of a key management request is an active key holding 'admin'.
AdminCaller(keys, raw) ==
    raw # NoBearer /\ \E i \in RowsOf(keys, raw) :
                        keys[i].is_active /\ "admin" \in Stored(keys[i])

\* C4 as stated: a key management call by a caller that is not an active
\* admin key changes no ApiKey row and is answered 401 or 403.
C4_NonAdminChangesNothing ==
    [][ (last'.op \in KeyOps /\ ~AdminCaller(apiKeys, last'.bearer))
        => (last'.status \in {401, 403} /\ apiKeys' = apiKeys) ]_vars

\* C4 amended: a key management call by a caller that is not an active admin
\* key is answered 401 or 403 and changes no ApiKey row, except that the
\* gate sets last_used_at of the calling key when that key is active.
C4_NonAdminChangesOnlyLastUsed ==
    [][ (last'.op \in KeyOps /\ ~AdminCaller(apiKeys, last'.bearer))
        => (/\ last'.status \in {401, 403}
            /\ SameBut(apiKeys, apiKeys',
                       {i \in RowsOf(apiKeys, last'.bearer) : apiKeys[i].is_active})) ]_vars

\* C4 witness: an active key without 'admin' asked for an update and got 403.
C4_Witness ==
    /\ last.op = "update"
    /\ last.status = 403
    /\ last.key \in DOMAIN apiKeys
    /\ apiKeys[last.key].is_active
    /\ "admin" \notin Stored(apiKeys[last.key])
    /\ apiKeys[last.key].last_used_at = now

\* The create request supplies exactly one of a known tier and a non-empty
\* list of vocabulary tokens.
WellFormedCreate(req) ==
    \/ /\ req.tier \in DOMAIN TIER_PERMISSIONS
       /\ req.permissions = <<>>
    \/ /\ req.tier = None
       /\ req.permissions # <<>>
       /\ Range(req.permissions) \subseteq VALID_PERMISSIONS

\* C5: an authorized creation (of a name not in use) is accepted, adding one
\* row, exactly when it supplies one of a known tier and a non-empty list of
\* vocabulary tokens; every other creation is answered 400 and adds no row.
C5_CreateAcceptedIffWellFormed ==
    [][ (last'.op = "create" /\ last'.gate = "pass")
        => IF ~WellFormedCreate(last'.req)
           THEN last'.status = 400 /\ Len(apiKeys') = Len(apiKeys)
           ELSE NameTaken(apiKeys, last'.req.name)
                \/ (last'.status = 201 /\ Len(apiKeys') = Len(apiKeys) + 1) ]_vars

\* C6: names stay unique, and every authorized, well-formed creation ends
\* with the new key (201) or with the conflict (409), whatever creations it
\* interleaves with.
C6_DuplicateNameConflict ==
    /\ \A i, j \in DOMAIN apiKeys : apiKeys[i].name = apiKeys[j].name => i = j
    /\ (last.op = "create" /\ last.gate = "pass"
        /\ ResolvePermissions(last.req.tier, last.req.permissions).status = 200)
       => last.status \in {201, 409}

\* C7: every row holds the digest of its secret and never the secret; a raw
\* secret is in a response only of the creation that made the row of its
\* digest, a row that did not exist before.
C7_RawSecretOnlyAtCreation ==
    /\ [](\A i \in DOMAIN apiKeys :
            /\ apiKeys[i].key_hash \notin Secrets
            /\ \E r \in Secrets : apiKeys[i].key_hash = sha256(r))
    /\ [][ last'.raw_key # NoSecret
           => (/\ last'.op \in {"create", "cli_create"}
               /\ RowsOf(apiKeys, last'.raw_key) = {}
               /\ Len(apiKeys') = Len(apiKeys) + 1
               /\ RowsOf(apiKeys', last'.raw_key) = {Len(apiKeys')}) ]_vars

\* C7 witness: a creation answered with the raw secret of the row it stored.
C7_Witness ==
    /\ last.raw_key \in Secrets
    /\ last.target \in DOMAIN apiKeys
    /\ apiKeys[last.target].key_hash = sha256(last.raw_key)
    /\ apiKeys[last.target].key_hash # last.raw_key

\* C8: no step removes a row or changes the id or key_hash of a row; a revoke
\* (HTTP or CLI) sets is_active = FALSE on its target row and changes nothing
\* else of the table, the gate's last_used_at of the calling key aside.
C8_RowsNeverDeleted ==
    [][ /\ Len(apiKeys') >= Len(apiKeys)
        /\ \A i \in DOMAIN apiKeys :
             /\ apiKeys'[i].id = apiKeys[i].id
             /\ apiKeys'[i].key_hash = apiKeys[i].key_hash
        /\ (last'.op \in {"revoke", "cli_revoke"}
            => /\ Len(apiKeys') = Len(apiKeys)
               /\ \A i \in DOMAIN apiKeys :
                    LET used == IF i = last'.key THEN apiKeys'[i].last_used_at
                                ELSE apiKeys[i].last_used_at
                    IN  IF i = last'.target /\ last'.detail \in {"revoked", "already revoked"}
                        THEN apiKeys'[i] = [apiKeys[i] EXCEPT !.is_active = FALSE,
                                                             !.last_used_at = used]
                        ELSE apiKeys'[i] = [apiKeys[i] EXCEPT !.last_used_at = used]) ]_vars

\* C8 witness: one of two rows was revoked over HTTP and both rows remain.
C8_Witness ==
    /\ last.op = "revoke"
    /\ last.status = 200
    /\ Len(apiKeys) = 2
    /\ ~apiKeys[last.target].is_active

----------------------------------------------------------------------------
(* Properties of the job executor *)

\* The items at the positions whose call returned.
RECURSIVE Succeeded(_, _)
Succeeded(items, outs) ==
    IF items = <<>> \/ outs = <<>> THEN <<>>
    ELSE (IF Head(outs) = "ok" THEN <<Head(items)>> ELSE <<>>)
         \o Succeeded(Tail(items), Tail(outs))

\* The items at the positions whose call raised, each with its error text.
RECURSIVE Failed(_, _)
Failed(items, outs) ==
    IF items = <<>> \/ outs = <<>> THEN <<>>
    ELSE (IF Head(outs) # "ok"
          THEN <<[item |-> Head(items), error |-> Head(outs)]>> ELSE <<>>)
         \o Failed(Tail(items), Tail(outs))

\* C9: the operation is called once per item in input order; the exception of
\* an item never ends the run and never puts the job in status error; a run
\* that returns leaves the job complete with progress = total = number of
\* items, result.failed the failing items with their errors and
\* result.success the others, both in input order.
C9_BatchExhaustsItems ==
    \A j \in DOMAIN exec :
      LET e == exec[j]
          n == Len(e.items)
      IN
      /\ Len(e.calls) <= n
      /\ e.calls = SubSeq(e.items, 1, Len(e.calls))
      /\ jobs[j].status # "error"
      /\ e.raised \notin Errors
      /\ e.pc = "done"
         => /\ e.calls = e.items
            /\ jobs[j].status = "complete"
            /\ jobs[j].progress = n
            /\ jobs[j].total = n
            /\ jobs[j].result # NoResult
            /\ json_loads(jobs[j].result).success = Succeeded(e.items, e.outs)
            /\ json_loads(jobs[j].result).failed = Failed(e.items, e.outs)

\* C9 witness: of three items the second raised, and the run returned.
C9_Witness ==
    \E j \in DOMAIN exec :
      /\ exec[j].pc = "done"
      /\ Len(exec[j].items) = 3
      /\ exec[j].outs[1] = "ok" /\ exec[j].outs[2] = "timeout" /\ exec[j].outs[3] = "ok"
      /\ jobs[j].status = "complete"
      /\ Len(json_loads(jobs[j].result).failed) = 1
      /\ Len(json_loads(jobs[j].result).success) = 2

\* C10: a job whose executor stopped is complete or, when a job-state write
\* raised, in status error with the message of the exception.
C10_ExecutorFailureSetsError ==
    \A j \in DOMAIN exec :
      /\ exec[j].pc \in {"done", "crashed"} => jobs[j].status \in {"complete", "error"}
      /\ exec[j].pc = "crashed"
         => jobs[j].status = "error" /\ jobs[j].error = exec[j].raised

----------------------------------------------------------------------------
(* Polling a job: the GET routes of the application (app/main.py,          *)
(* app/routers/mail.py), and the executor under the scheduling of the      *)
(* event loop                                                              *)

\* The GET routes of the mail router and of the application object, as
\* sequences of path segments; "{}" is a path parameter.
GetRoutes ==
    {<<>>,
     <<"health">>,
     <<"mail", "folders">>,
     <<"mail", "folders", "resolve", "{}">>,
     <<"mail", "messages">>,
     <<"mail", "messages", "{}">>,
     <<"mail", "search">>,
     <<"mail", "threads">>,
     <<"mail", "messages", "{}", "attachments">>,
     <<"mail", "messages", "{}", "attachments", "{}">>}

\* Route matching: same number of segments, equal but for the parameters.
Match(route, path) ==
    /\ Len(route) = Len(path)
    /\ \A i \in DOMAIN route : route[i] = "{}" \/ route[i] = path[i]

\* The paths a caller may poll job id j at.
JobReadPaths(j) ==
    {<<"mail", "jobs", j>>, <<"mail", "batch", j>>, <<"mail", "batch", "jobs", j>>,
     <<"jobs", j>>}

\* GET of a job: the router answers 404 when no route matches the path.
JobStatusRequest ==
    \E j \in JobIds, raw \in Bearers :
      \E path \in JobReadPaths(j) :
        /\ last' = IF \E route \in GetRoutes : Match(route, path)
                   THEN Step("job_status", raw, None, NoGate, 200, "matched", 0,
                             NoSecret, [path |-> path, job_id |-> j])
                   ELSE Step("job_status", raw, None, NoGate, 404, "Not Found", 0,
                             NoSecret, [path |-> path, job_id |-> j])
        /\ UNCHANGED <<apiKeys, auth, now, inflight, jobs, exec>>

NextJobsPoll ==
    \/ BatchRequest
    \/ ExecStart
    \/ ExecItem
    \/ ExecProgress
    \/ ExecComplete
    \/ JobStatusRequest

\* The event loop runs the task of a job up to its next await, and every
\* call of the operation returns or raises.
SpecJobsPoll ==
    /\ InitJobs
    /\ [][NextJobsPoll]_vars
    /\ WF_vars(ExecStart)
    /\ WF_vars(ExecItem)
    /\ WF_vars(ExecProgress)
    /\ WF_vars(ExecComplete)

\* C11: a job that a batch endpoint created reaches status complete or error,
\* whatever requests are served meanwhile, when every call of the operation
\* returns or raises.
C11_JobEventuallyTerminal ==
    \A j \in JobIds :
      (j \in DOMAIN jobs)
        ~> (j \in DOMAIN jobs /\ jobs[j].status \in {"complete", "error"})

\* C12: a read of the job id that a batch endpoint returned is answered 200.
C12_JobStatusReadable ==
    (last.op = "job_status" /\ last.req.job_id \in DOMAIN jobs)
    => last.status = 200

----------------------------------------------------------------------------
(* Crypto module: app/crypto.py *)

OperatorSecrets == {"k1", "k2", "k3"}   \* values of settings.secret_key
IVs == {1, 2}                           \* the random IV of a Fernet token
Plaintexts == {"", "at1", "rt1"}        \* strings handed to encrypt_token

\* hashlib.sha256(f"ms365-access-salt-derivation:{secret_key}".encode()).digest()
_derive_salt(secret_key) ==
    <<"sha256", "ms365-access-salt-derivation:", secret_key>>

\* PBKDF2HMAC(SHA256, length 32, salt, 100000 iterations).derive(secret_key),
\* base64-encoded: the Fernet key.
get_fernet(secret_key) ==
    <<"pbkdf2-sha256", secret_key>> \o _derive_salt(secret_key)

\* A string that is not a Fernet token.
Plain(x) == [fernet |-> FALSE, key |-> <<>>, iv |-> 0, text |-> x]

\* encrypt_token: the Fernet token of the string under the derived key; iv is
\* the random IV drawn by Fernet.encrypt.
encrypt_token(token, secret_key, iv) ==
    [fernet |-> TRUE, key |-> get_fernet(secret_key), iv |-> iv, text |-> token]

\* decrypt_token without the verification of the HMAC.
decrypt_token_NoVerify(encrypted_token, secret_key) ==
    [ok |-> TRUE, text |-> encrypted_token.text]

\* decrypt_token: the HMAC of the token is verified with the derived key;
\* cryptography.fernet.InvalidToken is raised when it does not verify.
decrypt_token(encrypted_token, secret_key) ==
    IF encrypted_token.fernet /\ encrypted_token.key = get_fernet(secret_key)
    THEN [ok |-> TRUE, text |-> encrypted_token.text]
    ELSE [ok |-> FALSE, text |-> "InvalidToken"]

----------------------------------------------------------------------------
(* Credential store and token vault: app/routers/auth.py,                  *)
(* app/services/graph_client.py.  The clock counts units of five minutes.  *)

SecretKey == "k1"       \* settings.secret_key of the running installation
Buffer == 1             \* timedelta(minutes=5)
DefaultTtl == 12        \* result.get("expires_in", 3600), in units of five minutes

\* Results of msal acquire_token_by_authorization_code; None is a missing key.
CallbackResults ==
    {[error |-> None, error_description |-> None, access_token |-> "at1",
      refresh_token |-> "rt1", expires_in |-> 2, preferred_username |-> "u@x"],
     [error |-> None, error_description |-> None, access_token |-> "at1",
      refresh_token |-> None, expires_in |-> 1, preferred_username |-> None],
     [error |-> "access_denied", error_description |-> "denied", access_token |-> None,
      refresh_token |-> None, expires_in |-> NoTime, preferred_username |-> None],
     [error |-> None, error_description |-> None, access_token |-> None,
      refresh_token |-> None, expires_in |-> NoTime, preferred_username |-> None]}

\* Results of msal acquire_token_by_refresh_token.
RefreshResults ==
    {[access_token |-> "at2", refresh_token |-> "rt2", expires_in |-> 2,
      error_description |-> None],
     [access_token |-> "at2", refresh_token |-> None, expires_in |-> 1,
      error_description |-> None],
     [access_token |-> "at2", refresh_token |-> None, expires_in |-> NoTime,
      error_description |-> None],
     [access_token |-> None, refresh_token |-> None, expires_in |-> NoTime,
      error_description |-> "invalid_grant"],
     [access_token |-> None, refresh_token |-> None, expires_in |-> NoTime,
      error_description |-> None]}

\* result.get("expires_in", 3600)
ExpiresIn(result) ==
    IF result.expires_in = NoTime THEN DefaultTtl ELSE result.expires_in

\* audit.log_event: one entry of the audit log.
log_event(action, email, success, error) ==
    [type |-> "auth", action |-> action, email |-> email, success |-> success,
     error |-> error]

\* callback, lines 82-87, storing the refresh token as it came.
NewAuth_PlainRefresh(result, t, iv1, iv2) ==
    [id |-> 1,
     email |-> IF TruthyStr(result.preferred_username)
               THEN result.preferred_username ELSE "unknown@user.com",
     access_token |-> encrypt_token(result.access_token, SecretKey, iv1),
     refresh_token |-> Plain(IF result.refresh_token = None THEN ""
                             ELSE result.refresh_token),
     expires_at |-> t + ExpiresIn(result)]

\* callback, lines 72-87: the Auth row of a successful exchange.  The table
\* is empty when the row is inserted, so SQLite gives it the rowid 1.
NewAuth(result, t, iv1, iv2) ==
    [id |-> 1,
     email |-> IF TruthyStr(result.preferred_username)
               THEN result.preferred_username ELSE "unknown@user.com",
     access_token |-> encrypt_token(result.access_token, SecretKey, iv1),
     refresh_token |-> encrypt_token(IF result.refresh_token = None THEN ""
                                     ELSE result.refresh_token, SecretKey, iv2),
     expires_at |-> t + ExpiresIn(result)]

\* callback that inserts without the delete.
ReplaceAuth_NoClear(rows, row) == Append(rows, row)

\* callback, lines 80-89: delete(Auth), add, commit, one transaction.
ReplaceAuth(rows, row) == <<row>>

\* _get_access_token with a strict comparison.
NeedsRefresh_Strict(a, t) == t > a.expires_at - Buffer

\* _get_access_token, line 32.
NeedsRefresh(a, t) == t >= a.expires_at - Buffer

\* _refresh_token that always assigns the refresh token.
_refresh_token_ClearsRefresh(a, result, t, iv1, iv2) ==
    IF result.access_token = None
    THEN LET error_msg == IF result.error_description = None THEN "Unknown error"
                          ELSE result.error_description IN
         [raised |-> <<"Token refresh failed", error_msg>>, auth |-> a, dirty |-> {},
          audit |-> <<log_event("token_refresh", a.email, FALSE, error_msg)>>]
    ELSE [raised |-> <<>>,
          auth |-> [a EXCEPT
                      !.access_token = encrypt_token(result.access_token, SecretKey, iv1),
                      !.refresh_token =
                          encrypt_token(IF result.refresh_token = None THEN ""
                                        ELSE result.refresh_token, SecretKey, iv2),
                      !.expires_at = t + ExpiresIn(result)],
          dirty |-> {"access_token", "expires_at", "refresh_token"},
          audit |-> <<log_event("token_refresh", a.email, TRUE, None)>>]

\* _refresh_token that assigns the access token before it tests the result.
_refresh_token_AssignsFirst(a, result, t, iv1, iv2) ==
    IF result.access_token = None
    THEN LET error_msg == IF result.error_description = None THEN "Unknown error"
                          ELSE result.error_description IN
         [raised |-> <<"Token refresh failed", error_msg>>,
          auth |-> [a EXCEPT !.access_token = encrypt_token("", SecretKey, iv1)],
          dirty |-> {},
          audit |-> <<log_event("token_refresh", a.email, FALSE, error_msg)>>]
    ELSE [raised |-> <<>>,
          auth |-> [a EXCEPT
                      !.access_token = encrypt_token(result.access_token, SecretKey, iv1),
                      !.refresh_token =
                          IF result.refresh_token # None
                          THEN encrypt_token(result.refresh_token, SecretKey, iv2)
                          ELSE @,
                      !.expires_at = t + ExpiresIn(result)],
          dirty |-> {"access_token", "expires_at"}
                    \cup (IF result.refresh_token # None THEN {"refresh_token"} ELSE {}),
          audit |-> <<log_event("token_refresh", a.email, TRUE, None)>>]

\* _refresh_token, lines 43-62, up to the commit: the exception raised (<<>>
\* when none), the in-memory Auth object after the call, the attributes
\* assigned, and the audit events written.  The success event follows the
\* commit.
_refresh_token(a, result, t, iv1, iv2) ==
    IF result.access_token = None
    THEN LET error_msg == IF result.error_description = None THEN "Unknown error"
                          ELSE result.error_description IN
         [raised |-> <<"Token refresh failed", error_msg>>, auth |-> a, dirty |-> {},
          audit |-> <<log_event("token_refresh", a.email, FALSE, error_msg)>>]
    ELSE [raised |-> <<>>,
          auth |-> [a EXCEPT
                      !.access_token = encrypt_token(result.access_token, SecretKey, iv1),
                      !.refresh_token =
                          IF result.refresh_token # None
                          THEN encrypt_token(result.refresh_token, SecretKey, iv2)
                          ELSE @,
                      !.expires_at = t + ExpiresIn(result)],
          dirty |-> {"access_token", "expires_at"}
                    \cup (IF result.refresh_token # None THEN {"refresh_token"} ELSE {}),
          audit |-> <<log_event("token_refresh", a.email, TRUE, None)>>]

\* db.add(self.auth); db.commit(): UPDATE auth SET <assigned columns> WHERE
\* id = <id of the object>; StaleDataError when no row has the id.
UpdateAuth(rows, a, dirty) ==
    IF \A i \in DOMAIN rows : rows[i].id # a.id
    THEN [raised |-> <<"StaleDataError">>, rows |-> rows]
    ELSE [raised |-> <<>>,
          rows |-> [i \in DOMAIN rows |->
                      IF rows[i].id = a.id
                      THEN [c \in DOMAIN rows[i] |->
                              IF c \in dirty THEN a[c] ELSE rows[i][c]]
                      ELSE rows[i]]]

\* _get_access_token that decrypts the token it held when it was called.
_get_access_token_OldToken(a, rows, result, t, iv1, iv2) ==
    IF ~NeedsRefresh(a, t)
    THEN LET d == decrypt_token(a.access_token, SecretKey) IN
         [raised |-> IF d.ok THEN <<>> ELSE <<d.text>>,
          token |-> IF d.ok THEN d.text ELSE None,
          exchanges |-> 0, auth |-> a, rows |-> rows, audit |-> <<>>]
    ELSE
    LET rt == decrypt_token(a.refresh_token, SecretKey) IN
    IF ~rt.ok
    THEN [raised |-> <<rt.text>>, token |-> None, exchanges |-> 0, auth |-> a,
          rows |-> rows, audit |-> <<>>]
    ELSE
    LET r == _refresh_token(a, result, t, iv1, iv2) IN
    IF r.raised # <<>>
    THEN [raised |-> r.raised, token |-> None, exchanges |-> 1, auth |-> r.auth,
          rows |-> rows, audit |-> r.audit]
    ELSE
    LET u == UpdateAuth(rows, r.auth, r.dirty) IN
    IF u.raised # <<>>
    THEN [raised |-> u.raised, token |-> None, exchanges |-> 1, auth |-> r.auth,
          rows |-> rows, audit |-> <<>>]
    ELSE [raised |-> <<>>, token |-> decrypt_token(a.access_token, SecretKey).text,
          exchanges |-> 1, auth |-> r.auth, rows |-> u.rows, audit |-> r.audit]

\* _get_access_token, lines 30-34, of a client whose in-memory Auth object is
\* a, over the table rows, when the upstream answers an exchange with result:
\* the exception raised (<<>> when none), the token returned, the number of
\* refresh exchanges made, the Auth object and the table after the call, and
\* the audit events written.
_get_access_token(a, rows, result, t, iv1, iv2) ==
    IF ~NeedsRefresh(a, t)
    THEN LET d == decrypt_token(a.access_token, SecretKey) IN
         [raised |-> IF d.ok THEN <<>> ELSE <<d.text>>,
          token |-> IF d.ok THEN d.text ELSE None,
          exchanges |-> 0, auth |-> a, rows |-> rows, audit |-> <<>>]
    ELSE
    LET rt == decrypt_token(a.refresh_token, SecretKey) IN
    IF ~rt.ok
    THEN [raised |-> <<rt.text>>, token |-> None, exchanges |-> 0, auth |-> a,
          rows |-> rows, audit |-> <<>>]
    ELSE
    LET r == _refresh_token(a, result, t, iv1, iv2) IN
    IF r.raised # <<>>
    THEN [raised |-> r.raised, token |-> None, exchanges |-> 1, auth |-> r.auth,
          rows |-> rows, audit |-> r.audit]
    ELSE
    LET u == UpdateAuth(rows, r.auth, r.dirty) IN
    IF u.raised # <<>>
    THEN [raised |-> u.raised, token |-> None, exchanges |-> 1, auth |-> r.auth,
          rows |-> rows, audit |-> <<>>]
    ELSE [raised |-> <<>>, token |-> decrypt_token(r.auth.access_token, SecretKey).text,
          exchanges |-> 1, auth |-> r.auth, rows |-> u.rows, audit |-> r.audit]

\* The record of a step of the vault or of the credential store.
VaultStep(op, status, raised, token, exchanges, audit, before, result) ==
    [op |-> op, status |-> status, raised |-> raised, token |-> token,
     exchanges |-> exchanges, audit |-> audit, before |-> before, result |-> result]

\* A transaction holds the write lock of the database between its first
\* write and its commit.
WriteLocked == \E e \in inflight : e.kind = "callback"

ClientRids == {"r1"}        \* requests holding a GraphClient
CallbackRids == {"r2"}      \* callback requests

\* get_current_auth / get_graph_client: the request loads the first Auth row
\* and builds its GraphClient around the loaded object.
ClientOpenAs(rids) ==
    \E rid \in rids \cap FreeRids :
      /\ IF auth = <<>>
         THEN /\ last' = VaultStep("client_open", 401, <<>>, None, 0, <<>>, <<>>, <<>>)
              /\ inflight' = inflight
         ELSE /\ last' = VaultStep("client_open", 200, <<>>, None, 0, <<>>, <<>>, <<>>)
              /\ inflight' = inflight \cup
                    {[rid |-> rid, kind |-> "client", auth |-> auth[1]]}
      /\ UNCHANGED <<apiKeys, auth, now, jobs, exec>>

ClientOpen == ClientOpenAs(ClientRids)

\* The request (or the batch job) holding the client ends.
ClientClose ==
    \E e \in inflight :
      /\ e.kind = "client"
      /\ inflight' = inflight \ {e}
      /\ last' = Idle("client_close")
      /\ UNCHANGED <<apiKeys, auth, now, jobs, exec>>

\* One call of _get_access_token by a client (_get_headers / put).  The
\* UPDATE of a refresh waits for the write lock.
GetAccessToken ==
    \E e \in inflight, result \in RefreshResults, iv1 \in IVs, iv2 \in IVs :
      /\ e.kind = "client"
      /\ ~WriteLocked
      /\ LET g == _get_access_token(e.auth, auth, result, now, iv1, iv2) IN
         /\ auth' = g.rows
         /\ inflight' = (inflight \ {e}) \cup {[e EXCEPT !.auth = g.auth]}
         /\ last' = VaultStep("get_token", 0, g.raised, g.token, g.exchanges,
                              g.audit, e.auth,
                              IF g.exchanges = 0 THEN <<>> ELSE <<result>>)
      /\ UNCHANGED <<apiKeys, now, jobs, exec>>

\* callback, lines 46-88: the exchange, the rejections, and the transaction
\* up to its commit (the delete takes the write lock).
CallbackBegin ==
    \E rid \in CallbackRids \cap FreeRids, result \in CallbackResults,
       iv1 \in IVs, iv2 \in IVs :
      /\ ~WriteLocked
      /\ IF result.error # None
         THEN /\ last' = VaultStep("callback", 400, <<>>, None, 0,
                    <<log_event("login", "unknown", FALSE, result.error_description)>>,
                    <<>>, <<result>>)
              /\ inflight' = inflight
         ELSE IF result.access_token = None
         THEN /\ last' = VaultStep("callback", 400, <<>>, None, 0,
                    <<log_event("login", "unknown", FALSE, "No access token received")>>,
                    <<>>, <<result>>)
              /\ inflight' = inflight
         ELSE /\ last' = Idle("callback_begin")
              /\ inflight' = inflight \cup
                    {[rid |-> rid, kind |-> "callback", result |-> result,
                      row |-> NewAuth(result, now, iv1, iv2)]}
      /\ UNCHANGED <<apiKeys, auth, now, jobs, exec>>

\* callback, lines 89-92: the commit and the answer.
CallbackCommit ==
    \E e \in inflight :
      /\ e.kind = "callback"
      /\ auth' = ReplaceAuth(auth, e.row)
      /\ inflight' = inflight \ {e}
      /\ last' = VaultStep("callback", 200, <<>>, None, 0,
                           <<log_event("login", e.row.email, TRUE, None)>>,
                           <<>>, <<e.result>>)
      /\ UNCHANGED <<apiKeys, now, jobs, exec>>

\* logout: select, delete(Auth), commit.
Logout ==
    /\ ~WriteLocked
    /\ auth' = <<>>
    /\ last' = VaultStep("logout", 200, <<>>, None, 0,
                         <<log_event("logout", IF auth = <<>> THEN "unknown"
                                               ELSE auth[1].email, TRUE, None)>>,
                         <<>>, <<>>)
    /\ UNCHANGED <<apiKeys, now, inflight, jobs, exec>>

\* The installation holds no credential, or one that an earlier callback
\* stored and that expires at the first instant of the clock.
InitVault ==
    /\ apiKeys = <<>>
    /\ auth \in {<<>>,
                 <<[id |-> 1, email |-> "u@x",
                    access_token |-> encrypt_token("at1", SecretKey, 1),
                    refresh_token |-> encrypt_token("rt1", SecretKey, 1),
                    expires_at |-> 0]>>}
    /\ now = 0
    /\ last = Idle("init")
    /\ inflight = {}
    /\ jobs = <<>>
    /\ exec = <<>>

NextVault ==
    \/ ClientOpen
    \/ ClientClose
    \/ GetAccessToken
    \/ CallbackBegin
    \/ CallbackCommit
    \/ Logout
    \/ Tick

SpecVault == InitVault /\ [][NextVault]_vars

----------------------------------------------------------------------------
(* Properties of the credential store and the token vault *)

\* The in-memory Auth objects of the clients in flight.
ClientCopies(entries) == {e.auth : e \in {x \in entries : x.kind = "client"}}

\* The rows of the table that the UPDATE of an object addresses.
RowsWithId(rows, a) == {i \in DOMAIN rows : rows[i].id = a.id}

\* C13: a call whose credential has expires_at earlier than now, with the row
\* in the table and an upstream that answers with an access token, makes one
\* refresh exchange, persists expires_at = now + ttl, later than now, and
\* returns the access token the upstream issued.
C13_ExpiredTokenRefreshedOnce ==
    [][ (/\ last'.op = "get_token"
         /\ last'.before.expires_at < now
         /\ RowsWithId(auth, last'.before) # {})
        => (/\ last'.exchanges = 1
            /\ last'.result[1].access_token # None
               => (/\ last'.raised = <<>>
                   /\ last'.token = last'.result[1].access_token
                   /\ ExpiresIn(last'.result[1]) > 0
                   /\ \A i \in RowsWithId(auth, last'.before) :
                        /\ auth'[i].expires_at = now + ExpiresIn(last'.result[1])
                        /\ auth'[i].expires_at > now
                        /\ decrypt_token(auth'[i].access_token, SecretKey).text
                             = last'.token)) ]_vars

\* C13 witness: an expired credential whose stored token was at1 was
\* refreshed to at2 in one exchange.
C13_Witness ==
    /\ last.op = "get_token"
    /\ last.before.expires_at < now
    /\ decrypt_token(last.before.access_token, SecretKey).text = "at1"
    /\ last.exchanges = 1
    /\ last.token = "at2"
    /\ auth # <<>>
    /\ auth[1].expires_at > now

\* C14: after a successful refresh whose result holds no refresh token, every
\* row differs from what it was in access_token and expires_at only, its
\* refresh_token decrypts to what it did, and the client's object holds the
\* refresh_token it held.
C14_RefreshSecretRetained ==
    [][ (/\ last'.op = "get_token"
         /\ last'.exchanges = 1
         /\ last'.raised = <<>>
         /\ last'.result[1].refresh_token = None)
        => (/\ DOMAIN auth' = DOMAIN auth
            /\ \A i \in DOMAIN auth :
                 /\ auth'[i] = [auth[i] EXCEPT !.access_token = auth'[i].access_token,
                                               !.expires_at = auth'[i].expires_at]
                 /\ decrypt_token(auth'[i].refresh_token, SecretKey)
                      = decrypt_token(auth[i].refresh_token, SecretKey)
                 /\ decrypt_token(auth'[i].refresh_token, SecretKey).ok
            /\ \A a \in ClientCopies(inflight') :
                 a.refresh_token = last'.before.refresh_token) ]_vars

\* C14 witness: a refresh without a new refresh token replaced the access
\* token at1 by at2 and the row still holds the refresh token rt1.
C14_Witness ==
    /\ last.op = "get_token"
    /\ last.exchanges = 1
    /\ last.raised = <<>>
    /\ last.result[1].refresh_token = None
    /\ auth # <<>>
    /\ decrypt_token(auth[1].refresh_token, SecretKey).text = "rt1"
    /\ decrypt_token(auth[1].access_token, SecretKey).text = "at2"
    /\ decrypt_token(last.before.access_token, SecretKey).text = "at1"

\* C15: a refresh exchange whose result holds no access token raises an error
\* with the upstream's error description, writes one audit event of the
\* failure, returns no token, and leaves the table and the client's object as
\* they were.
C15_RefreshFailureLeavesCredential ==
    [][ (/\ last'.op = "get_token"
         /\ last'.exchanges = 1
         /\ last'.result[1].access_token = None)
        => LET error_msg == IF last'.result[1].error_description = None
                            THEN "Unknown error"
                            ELSE last'.result[1].error_description
           IN  /\ last'.raised = <<"Token refresh failed", error_msg>>
               /\ last'.audit = <<log_event("token_refresh", last'.before.email,
                                            FALSE, error_msg)>>
               /\ last'.token = None
               /\ auth' = auth
               /\ inflight' = inflight ]_vars

\* C15 witness: the upstream refused the refresh with invalid_grant while a
\* credential was stored.
C15_Witness ==
    /\ last.op = "get_token"
    /\ last.exchanges = 1
    /\ last.raised = <<"Token refresh failed", "invalid_grant">>
    /\ auth # <<>>
    /\ last.before \in ClientCopies(inflight)

\* C16: the table holds at most one row in every state; the commit of a
\* callback leaves exactly its row, the transaction of a callback leaves the
\* committed table as it was until then, and a logout leaves no row.
C16_AtMostOneCredential ==
    /\ [](Len(auth) <= 1)
    /\ [][ /\ (last'.op = "callback" /\ last'.status = 200)
              => (/\ Len(auth') = 1
                  /\ \E e \in inflight : e.kind = "callback" /\ auth'[1] = e.row)
           /\ last'.op = "callback_begin" => auth' = auth
           /\ last'.op = "logout" => auth' = <<>> ]_vars

\* C16 witness: a callback replaced the row that a client in flight had loaded.
C16_Witness ==
    /\ last.op = "callback"
    /\ last.status = 200
    /\ Len(auth) = 1
    /\ \E a \in ClientCopies(inflight) : a.email # auth[1].email

\* C18: access_token and refresh_token of every row are Fernet tokens made
\* under the key of the installation.
C18_NoPlaintextStored ==
    \A i \in DOMAIN auth :
      /\ auth[i].access_token.fernet
      /\ auth[i].refresh_token.fernet
      /\ decrypt_token(auth[i].access_token, SecretKey).ok
      /\ decrypt_token(auth[i].refresh_token, SecretKey).ok

\* C18 witness: the row of a callback whose exchange returned no refresh
\* token, its access token refreshed since.
C18_Witness ==
    /\ auth # <<>>
    /\ auth[1].refresh_token.fernet
    /\ decrypt_token(auth[1].refresh_token, SecretKey).text = ""
    /\ decrypt_token(auth[1].access_token, SecretKey).text = "at2"

\* C20: a call makes a refresh exchange exactly when now >= expires_at - 5
\* minutes; a call before that instant returns the decrypted access token of
\* the credential and changes neither the table nor the client's object.
C20_RefreshIffPastThreshold ==
    [][ last'.op = "get_token"
        => (/\ last'.exchanges = 1 <=> now >= last'.before.expires_at - Buffer
            /\ now < last'.before.expires_at - Buffer
               => (/\ last'.exchanges = 0
                   /\ last'.raised = <<>>
                   /\ last'.token = decrypt_token(last'.before.access_token, SecretKey).text
                   /\ auth' = auth
                   /\ inflight' = inflight)) ]_vars

\* C20 witness: a call at the instant expires_at - 5 minutes made an exchange.
C20_Witness ==
    /\ last.op = "get_token"
    /\ now = last.before.expires_at - Buffer
    /\ last.exchanges = 1

----------------------------------------------------------------------------
(* The gate when the commit of last_used_at may fail: app/dependencies.py  *)

\* verify_api_key and _check, where commit_ok tells whether the commit of
\* line 72 succeeds: the exception of a failed commit is not handled, the
\* request is answered 500 and the transaction is rolled back.
StorageGate(keys, raw, permission, t, commit_ok) ==
    IF raw # NoBearer /\ ActiveMatch(keys, raw) # {} /\ ~commit_ok
    THEN [gate |-> "500", detail |-> "OperationalError", www |-> None,
          key |-> CHOOSE i \in ActiveMatch(keys, raw) : TRUE, keys |-> keys]
    ELSE Gate(keys, raw, permission, t)

\* A request to an endpoint that declares require_permission.
ProxyRequestStorage ==
    \E e \in Endpoints, raw \in Bearers, commit_ok \in BOOLEAN :
      /\ e.perm # None
      /\ LET g == StorageGate(apiKeys, raw, e.perm, now, commit_ok) IN
         /\ IF g.gate = "500"
            THEN last' = Step(e.router, raw, e.perm, g, 500, g.detail, 0, NoSecret, <<>>)
            ELSE IF g.gate # "pass"
            THEN \E st \in GateStatuses(g.gate) :
                   last' = Step(e.router, raw, e.perm, g, st, g.detail, 0, NoSecret, <<>>)
            ELSE LET c == get_graph_client(auth) IN
                 last' = [Step(e.router, raw, e.perm, g, c.status, c.detail, 0,
                               NoSecret, <<>>) EXCEPT !.vault = c.vault]
         /\ apiKeys' = g.keys
      /\ UNCHANGED <<auth, now, inflight, jobs, exec>>

NextGateStorage ==
    \/ ProxyRequestStorage
    \/ CliRevokeKey
    \/ Tick

SpecGateStorage == InitJobs /\ [][NextGateStorage]_vars

\* C17: a request presenting the secret of an active key is authenticated,
\* that is passes the gate or is refused for its permissions, whether or not
\* last_used_at could be persisted; it is never answered 500.
C17_LastUsedBestEffort ==
    [][ (/\ GatedStep(last')
         /\ \E i \in RowsOf(apiKeys, last'.bearer) : apiKeys[i].is_active)
        => (last'.gate \in {"pass", "403"} /\ last'.status # 500) ]_vars

----------------------------------------------------------------------------
(* The crypto module across restarts of the process *)

\* The process: its SECRET_KEY (get_settings is cached for the life of the
\* process), the token held, the string it was made from, the secret it was
\* made under, whether the process restarted since, and the last result.
CryptoState(op, secret, x, enc_secret, token, restarted, out) ==
    [op |-> op, secret |-> secret, x |-> x, enc_secret |-> enc_secret,
     token |-> token, restarted |-> restarted, out |-> out]

NoOut == [ok |-> FALSE, text |-> ""]

\* encrypt_token(x)
CryptoEncrypt ==
    \E x \in Plaintexts, iv \in IVs :
      /\ last' = CryptoState("encrypt", last.secret, x, last.secret,
                             encrypt_token(x, last.secret, iv), FALSE, NoOut)
      /\ UNCHANGED <<apiKeys, auth, now, inflight, jobs, exec>>

\* The process restarts, with the same SECRET_KEY or another: get_fernet
\* derives the key again.
CryptoRestart ==
    \E s \in OperatorSecrets :
      /\ last' = CryptoState("restart", s, last.x, last.enc_secret, last.token,
                             TRUE, NoOut)
      /\ UNCHANGED <<apiKeys, auth, now, inflight, jobs, exec>>

\* decrypt_token(token) of the token held.
CryptoDecrypt ==
    /\ last.token.fernet
    /\ last' = CryptoState("decrypt", last.secret, last.x, last.enc_secret,
                           last.token, last.restarted,
                           decrypt_token(last.token, last.secret))
    /\ UNCHANGED <<apiKeys, auth, now, inflight, jobs, exec>>

InitCrypto ==
    /\ apiKeys = <<>>
    /\ auth = <<>>
    /\ now = 0
    /\ \E s \in OperatorSecrets :
         last = CryptoState("init", s, "", s, Plain(""), FALSE, NoOut)
    /\ inflight = {}
    /\ jobs = <<>>
    /\ exec = <<>>

NextCrypto ==
    \/ CryptoEncrypt
    \/ CryptoRestart
    \/ CryptoDecrypt

SpecCrypto == InitCrypto /\ [][NextCrypto]_vars

----------------------------------------------------------------------------
(* Two callers racing past the same expiring token: each request loads its *)
(* own Auth object (get_graph_client) and refreshes it on its own.         *)

RaceRids == {"r1", "r2"}    \* two requests holding a GraphClient each

ClientOpenRace == ClientOpenAs(RaceRids)

NextRace ==
    \/ ClientOpenRace
    \/ ClientClose
    \/ GetAccessToken
    \/ Tick

SpecRace == InitVault /\ [][NextRace]_vars

\* The client entries a step wrote: the caller of a _get_access_token call.
Callers(before, after) == {e \in after : e.kind = "client" /\ e \notin before}

\* C21: a call makes at most one refresh exchange; a call whose refresh
\* committed returns the access token of its own exchange, and the row it
\* wrote then holds the access secret, the refresh secret and expires_at that
\* this refresh computed, whatever another caller committed before.
C21_RaceLastWriterWins ==
    [][ last'.op = "get_token"
        => (/\ last'.exchanges <= 1
            /\ (last'.exchanges = 1 /\ last'.raised = <<>>)
               => (/\ last'.token = last'.result[1].access_token
                   /\ \A e \in Callers(inflight, inflight') :
                      \A i \in RowsWithId(auth', e.auth) :
                        /\ auth'[i].access_token = e.auth.access_token
                        /\ auth'[i].refresh_token = e.auth.refresh_token
                        /\ auth'[i].expires_at = e.auth.expires_at)) ]_vars

----------------------------------------------------------------------------
(* The life of a job row *)

Terminal == {"complete", "error"}

\* C22: a job row is created pending; its first write sets it running with
\* progress 0 and total the number of items, before any call of the
\* operation; the operation is called only while the row is running; each
\* later write of a running row is the progress write that follows one call,
\* whatever the call did, or the write that ends the job; a terminal row
\* never changes.
C22_JobStatusOrder ==
    [][ /\ \A j \in DOMAIN jobs' \ DOMAIN jobs :
             /\ jobs'[j].status = "pending"
             /\ jobs'[j].progress = 0
        /\ \A j \in DOMAIN jobs :
             LET a == jobs[j]
                 b == jobs'[j]
                 e == exec[j]
             IN
             /\ a.status \in Terminal => b = a
             /\ exec'[j].calls # e.calls => a.status = "running"
             /\ b # a =>
                  \/ /\ a.status = "pending" /\ b.status = "running"
                     /\ b.progress = 0 /\ b.total = Len(e.items)
                     /\ e.calls = <<>>
                  \/ /\ a.status = "running" /\ b.status = "running"
                     /\ b.progress = a.progress + 1
                     /\ b.progress = Len(e.calls)
                     /\ b.total = a.total
                  \/ /\ a.status = "running" /\ b.status \in Terminal
                     /\ e.calls = e.items ]_vars

\* C22 witness: a job of two items, the first of which raised, went through
\* running to complete.
C22_Witness ==
    \E j \in DOMAIN jobs :
      /\ jobs[j].status = "complete"
      /\ Len(exec[j].items) = 2
      /\ exec[j].outs[1] = "timeout"
      /\ exec[j].outs[2] = "ok"

\* The number of items whose operation has finished, by the ledgers.
Finished(e) == Len(e.results.success) + Len(e.results.failed)

----------------------------------------------------------------------------
(* Two jobs at once *)

TwoJobIds == {"j1", "j2"}
ShortLen == 1
ShortLists == SeqsUpTo(ItemIds, ShortLen)

BatchRequestTwo == BatchRequestOf(TwoJobIds, ShortLists)

NextJobsTwo ==
    \/ BatchRequestTwo
    \/ ExecStart
    \/ ExecItem
    \/ ExecProgress
    \/ ExecComplete

SpecJobsTwo == InitJobs /\ [][NextJobsTwo]_vars

\* C24: once a job row exists, a step that changes it is a step of the
\* executor run of that job and of no other run, and no request handler
\* changes it; the writes of one run come in program order: running with
\* progress 0 from the start, progress i + 1 after the call on item i + 1,
\* complete after the last item.
C24_SingleWriter ==
    [][ \A j \in DOMAIN jobs :
          jobs'[j] # jobs[j]
          => /\ last'.op = "exec"
             /\ exec'[j].pc # exec[j].pc
             /\ \A k \in DOMAIN exec \ {j} :
                  exec'[k] = exec[k] /\ jobs'[k] = jobs[k]
             /\ \/ exec[j].pc = "start" /\ jobs'[j].progress = 0
                \/ exec[j].pc = "persist" /\ jobs'[j].progress = exec[j].i + 1
                \/ /\ exec[j].pc = "loop" /\ exec[j].i = Len(exec[j].items)
                   /\ jobs'[j].status = "complete" ]_vars

\* C24 witness: two jobs in flight, the executor of one writing its progress
\* while the other is running.
C24_Witness ==
    /\ DOMAIN jobs = TwoJobIds
    /\ last.op = "exec"
    /\ jobs["j1"].status = "running"
    /\ jobs["j1"].progress = 1
    /\ jobs["j2"].status = "running"
    /\ exec["j2"].pc = "persist"

----------------------------------------------------------------------------
(* The sessions a job writes through: the executor opens one with          *)
(* async_session_maker() for the job-state writes, while the operation it  *)
(* is handed calls the mail service of the request, whose GraphClient was  *)
(* built by get_graph_client around the session get_db gave the request.   *)

\* The session get_db opened for the request that enqueued job j.
RequestSession(j) == <<"request", j>>

\* The session run_batch_operation opens for job j (line 75).
ExecutorSession(j) == <<"executor", j>>

\* self.db of the GraphClient the operation of job j calls.
ClientSession(j) == RequestSession(j)

\* run_batch_operation, lines 83-88, with the operation spelled out:
\* mail_service.move_message / delete_message -> GraphClient.post / delete ->
\* _get_headers -> _get_access_token, then the upstream call.  A refresh
\* commits through self.db of the client.  get_db closes the session of the
\* request when the request ends, before or after the background task runs
\* (the order depends on the framework release).
ExecItemVault ==
    \E j \in DOMAIN exec, out \in Outcomes, result \in RefreshResults,
       iv1 \in IVs, iv2 \in IVs, closed \in BOOLEAN :
      /\ exec[j].pc = "loop"
      /\ exec[j].i < Len(exec[j].items)
      /\ LET e == exec[j]
             g == _get_access_token(e.client, auth, result, now, iv1, iv2)
             did == IF g.raised # <<>> THEN g.raised[1] ELSE out
         IN
         /\ auth' = g.rows
         /\ exec' = [exec EXCEPT ![j] =
                       [AfterItem(e, e.items[e.i + 1], did) EXCEPT !.client = g.auth]]
         /\ last' = [op |-> "exec_item", job |-> j, exchanges |-> g.exchanges,
                     raised |-> g.raised,
                     writes |-> IF g.exchanges = 1 /\ g.raised = <<>>
                                THEN {[table |-> "auth", session |-> ClientSession(j),
                                       closed |-> closed]}
                                ELSE {}]
      /\ UNCHANGED <<apiKeys, now, inflight, jobs>>

BatchRequestShort == BatchRequestOf(JobIds, ShortLists)

\* The state the batch endpoints are used in, with the stored credential
\* spelled out.
InitJobsSession ==
    /\ apiKeys = <<NewRow(1, sha256(1), "a", json_dumps(sorted(<<"admin">>))),
                   NewRow(2, sha256(2), "b", json_dumps(sorted(OpenclawList)))>>
    /\ auth = <<[id |-> 1, email |-> "u@x",
                 access_token |-> encrypt_token("at1", SecretKey, 1),
                 refresh_token |-> encrypt_token("rt1", SecretKey, 1),
                 expires_at |-> 0]>>
    /\ now = 0
    /\ last = Idle("init")
    /\ inflight = {}
    /\ jobs = <<>>
    /\ exec = <<>>

NextJobsSession ==
    \/ BatchRequestShort
    \/ ExecStart
    \/ ExecItemVault
    \/ ExecProgress
    \/ ExecComplete
    \/ Tick

SpecJobsSession == InitJobsSession /\ [][NextJobsSession]_vars

\* C25: every write an item operation of a running job causes goes through
\* the session the executor of that job opened, and through no closed
\* session.
C25_ExecutorSessionOnly ==
    [][ last'.op = "exec_item"
        => \A w \in last'.writes :
             /\ w.session = ExecutorSession(last'.job)
             /\ ~w.closed ]_vars

----------------------------------------------------------------------------
(* The scopes sent upstream: app/routers/auth.py and                       *)
(* app/services/graph_client.py filter settings.scopes with the same       *)
(* comprehension.                                                          *)

MaxScopes == 3

\* Values of the SCOPES setting: configured names in several letter cases.
ScopeVocab == {"User.Read", "Mail.Send", "offline_access", "OpenID", "PROFILE"}

\* str.lower().
lower(s) ==
    CASE s = "User.Read" -> "user.read"
      [] s = "Mail.Send" -> "mail.send"
      [] s = "OpenID" -> "openid"
      [] s = "PROFILE" -> "profile"
      [] OTHER -> s

RESERVED_SCOPES == {"openid", "profile", "offline_access"}

IsUserScope(s) == lower(s) \notin RESERVED_SCOPES

IsNotReservedSpelling(s) == s \notin RESERVED_SCOPES

\* get_user_scopes of the auth router (auth.py, lines 22-23).
auth_get_user_scopes(scopes) == SelectSeq(scopes, IsUserScope)

\* get_user_scopes comparing the configured spelling with the reserved names.
get_user_scopes_CaseSensitive(scopes) == SelectSeq(scopes, IsNotReservedSpelling)

\* get_user_scopes of the Graph client (graph_client.py, lines 19-20).
get_user_scopes(scopes) == SelectSeq(scopes, IsUserScope)

\* One upstream call and the scope list it carries.
ScopeStep(op, scopes, sent) == [op |-> op, scopes |-> scopes, sent |-> sent]

\* login: get_authorization_request_url(scopes=get_user_scopes(), ...).
LoginScopes ==
    /\ last' = ScopeStep("login", last.scopes, auth_get_user_scopes(last.scopes))
    /\ UNCHANGED <<apiKeys, auth, now, inflight, jobs, exec>>

\* callback: acquire_token_by_authorization_code(code, scopes=get_user_scopes(), ...).
CallbackScopes ==
    /\ last' = ScopeStep("code_exchange", last.scopes, auth_get_user_scopes(last.scopes))
    /\ UNCHANGED <<apiKeys, auth, now, inflight, jobs, exec>>

\* _refresh_token: acquire_token_by_refresh_token(refresh_token, scopes=get_user_scopes()).
RefreshScopes ==
    /\ last' = ScopeStep("refresh", last.scopes, get_user_scopes(last.scopes))
    /\ UNCHANGED <<apiKeys, auth, now, inflight, jobs, exec>>

\* The process starts with some SCOPES setting; get_settings caches it.
InitScopes ==
    /\ apiKeys = <<>>
    /\ auth = <<>>
    /\ now = 0
    /\ \E scopes \in SeqsUpTo(ScopeVocab, MaxScopes) :
         last = ScopeStep("settings", scopes, <<>>)
    /\ inflight = {}
    /\ jobs = <<>>
    /\ exec = <<>>

NextScopes ==
    \/ LoginScopes
    \/ CallbackScopes
    \/ RefreshScopes

SpecScopes == InitScopes /\ [][NextScopes]_vars

\* The positions of the configured list that hold no reserved name.
UserPositions(scopes) == {i \in DOMAIN scopes : lower(scopes[i]) \notin RESERVED_SCOPES}

\* C26: the scope list of an authorization request, a code exchange or a
\* refresh holds no name that is reserved in any letter case, and holds the
\* other configured names, as configured, in configured order.
C26_ScopesFiltered ==
    last.op \in {"login", "code_exchange", "refresh"}
    => LET idx == UserPositions(last.scopes) IN
       /\ \A k \in DOMAIN last.sent : lower(last.sent[k]) \notin RESERVED_SCOPES
       /\ Len(last.sent) = Cardinality(idx)
       /\ \A k \in DOMAIN last.sent :
            \E i \in idx :
              /\ Cardinality({x \in idx : x <= i}) = k
              /\ last.sent[k] = last.scopes[i]

\* C26 witness: a refresh under a setting with reserved names in capitals
\* around a user scope.
C26_Witness ==
    /\ last.op = "refresh"
    /\ last.scopes = <<"OpenID", "User.Read", "offline_access">>
    /\ last.sent = <<"User.Read">>

----------------------------------------------------------------------------
(* The permission sets the key operations can store *)

\* ApiKeyUpdate bodies, the empty permission list included.
UpdateInputsAny ==
    {[name |-> "b", permissions |-> NoneList, is_active |-> None],
     [name |-> None, permissions |-> <<>>, is_active |-> None],
     [name |-> None, permissions |-> <<"admin">>, is_active |-> None],
     [name |-> None, permissions |-> NoneList, is_active |-> "False"],
     [name |-> "b", permissions |-> MixedList, is_active |-> "False"]}

\* create-key --permissions takes one or more arbitrary words (nargs="+").
CliPermInputsAny == {<<"admin">>, MixedList}

HttpUpdateAny == HttpUpdateOf(UpdateInputsAny)

CliCreateKeyAny == CliCreateKeyOf(CliPermInputsAny)

NextKeys ==
    \/ HttpCreate
    \/ HttpUpdateAny
    \/ HttpRevoke
    \/ CliCreateKeyAny
    \/ CliRevokeKey

SpecKeys == Init /\ [][NextKeys]_vars

\* C27: the permission set stored on every ApiKey row is a non-empty subset
\* of the closed vocabulary.
C27_StoredPermissionsValid ==
    \A i \in DOMAIN apiKeys :
      /\ Stored(apiKeys[i]) # {}
      /\ Stored(apiKeys[i]) \subseteq VALID_PERMISSIONS

\* The rows the gate authenticates the bearer secret as.
Authenticated(keys, raw) == {i \in RowsOf(keys, raw) : keys[i].is_active}

\* The permission list of an update body holds a token outside the vocabulary.
InvalidPermissions(req) ==
    req.permissions # NoneList /\ Range(req.permissions) \ VALID_PERMISSIONS # {}

\* C29 as stated: an update that the handler rejects with 400 or 404 changes
\* no ApiKey row.
C29_RejectedUpdateChangesNoRow ==
    [][ (last'.op = "update" /\ last'.gate = "pass" /\ last'.status \in {400, 404})
        => apiKeys' = apiKeys ]_vars

\* C29 amended: an update of an unknown key id is answered 404, an update of
\* a known key with a permission token outside the vocabulary is answered
\* 400, and either leaves name, permissions and is_active of every row as
\* they were; the only change is last_used_at of the calling key, set by the
\* gate before the handler ran.
C29_RejectedUpdatePersistsNothing ==
    [][ (last'.op = "update" /\ last'.gate = "pass")
        => (/\ last'.target \notin DOMAIN apiKeys => last'.status = 404
            /\ (last'.target \in DOMAIN apiKeys /\ InvalidPermissions(last'.req))
               => last'.status = 400
            /\ last'.status \in {400, 404}
               => SameBut(apiKeys, apiKeys', Authenticated(apiKeys, last'.bearer))) ]_vars

\* C29 witness: an update carrying a new name, an invalid permission list and
\* is_active = False was answered 400, and the target row kept its name, its
\* permissions and is_active.
C29_Witness ==
    /\ last.op = "update"
    /\ last.status = 400
    /\ last.req.name = "b"
    /\ last.req.is_active = "False"
    /\ last.target \in DOMAIN apiKeys
    /\ apiKeys[last.target].name = "a"
    /\ apiKeys[last.target].is_active
    /\ Stored(apiKeys[last.target]) = {"admin"}

\* C30: a request that reaches the gate with a bearer secret sets
\* last_used_at of the row it authenticates as to the time of the request,
\* whether the permission check then passes or answers 403, and changes
\* nothing else; a request the gate answers 401 changes no row; no other
\* step changes last_used_at of a row.
C30_LastUsedFrame ==
    [][ IF last'.gate \in {"401", "403", "pass"} /\ last'.op \in ProxyOps
        THEN LET ok == Authenticated(apiKeys, last'.bearer) IN
             /\ Len(apiKeys') = Len(apiKeys)
             /\ \A i \in DOMAIN apiKeys :
                  apiKeys'[i] = IF i \in ok
                                THEN [apiKeys[i] EXCEPT !.last_used_at = now]
                                ELSE apiKeys[i]
             /\ last'.gate = "401" <=> ok = {}
             /\ last'.gate = "401" => apiKeys' = apiKeys
        ELSE last'.op \notin KeyOps
             => \A i \in DOMAIN apiKeys :
                  apiKeys'[i].last_used_at = apiKeys[i].last_used_at ]_vars

\* C30 witness: an active key without the permission was answered 403 at a
\* later time than its previous use, and its last_used_at is the time of
\* the request.
C30_Witness ==
    /\ last.op \in ProxyOps
    /\ last.gate = "403"
    /\ last.status = 403
    /\ now > 0
    /\ last.key \in DOMAIN apiKeys
    /\ apiKeys[last.key].last_used_at = now

\* C28: an empty credential store stays empty until a callback succeeds,
\* whatever refresh a client holding an older Auth object attempts; and a
\* refresh changes a stored row only when the row records the identity of
\* the Auth object whose refresh secret was exchanged, so that the tokens of
\* a row are tokens issued for the identity the row names.
C28_StaleRefreshAltersNothing ==
    [][ /\ (auth = <<>> /\ auth' # <<>>)
           => (last'.op = "callback" /\ last'.status = 200)
        /\ last'.op = "get_token"
           => /\ DOMAIN auth' = DOMAIN auth
              /\ \A i \in DOMAIN auth :
                   auth'[i] # auth[i] => auth[i].email = last'.before.email ]_vars

====
